---- MODULE Spec2Model ----
(***************************************************************************)
(* A model of the multi-tenant REST backend in Role_Based_auth_app: the    *)
(* tenant-scoped viewsets (views.py), their permission classes             *)
(* (permissions.py), the role table (models.py) and the post_save /        *)
(* post_delete handlers (signals.py).                                      *)
(***************************************************************************)
EXTENDS Integers, FiniteSets, Sequences, TLC

VARIABLES users, products, images, rows, usage, logs, seq, mutations, resp,
          perm, pc, local, passwords

vars == <<users, products, images, rows, usage, logs, seq, mutations, resp,
          perm, pc, local, passwords>>

-----------------------------------------------------------------------------
(* Bounds of the model.                                                    *)

MaxProducts == 3
MaxViews == 1
MaxMutations == 1

-----------------------------------------------------------------------------
(* Tenants, roles, users.                                                  *)

None == "None"
Orgs == {"orgA", "orgB"}

\* models.py User.ROLE_CHOICES
ROLE_CHOICES == {"owner", "admin", "manager", "user", "viewer"}

\* A row of the User table: the fields the views and permissions read.
\* id is 0 for the users of the initial store, who differ in the other fields.
UserRows ==
  [id : {0}, organization : Orgs \cup {None}, role : ROLE_CHOICES,
   is_staff : BOOLEAN, is_authenticated : {TRUE}]

\* request.user of a request without a valid token.
AnonymousUser ==
  [id |-> 0, organization |-> None, role |-> "anonymous", is_staff |-> FALSE,
   is_authenticated |-> FALSE]

\* The value of a null foreign key to User (created_by, updated_by, user).
NoUser ==
  [id |-> 0, organization |-> None, role |-> "null", is_staff |-> FALSE, is_authenticated |-> FALSE]

\* The users who send requests: the members of orgA and the users without an
\* organization in every role, staff users among them, and the anonymous
\* user.  The store holds rows of orgA and orgB alike, so a member of orgA
\* meets every cross-tenant case.
Actors ==
  {u \in UserRows : /\ u.organization # "orgB"
                    /\ u.is_staff => u.role \in {"admin", "user"}}
  \cup {AnonymousUser}

\* The rows of the User table: the users who send requests and two members
\* of orgB.
InitUsers ==
  (Actors \ {AnonymousUser}) \cup
  {u \in UserRows : u.organization = "orgB" /\ ~u.is_staff /\ u.role \in {"owner", "viewer"}}

\* The collections the router registers on BaseOrgViewSet subclasses.
Kinds ==
  {"users", "categories", "products", "product-images", "subscriptions", "usage",
   "files", "api-keys", "notifications", "activity-logs"}

\* The collections kept in the generic table rows.
RowKinds == {"categories", "subscriptions", "files", "api-keys", "notifications"}

SAFE_METHODS == {"GET", "HEAD", "OPTIONS"}

-----------------------------------------------------------------------------
(* permissions.py                                                          *)

IsAuthenticated(user) == user.is_authenticated

IsAdminOrOwner(user) ==
  IF user.is_authenticated
  THEN user.role \in {"admin", "owner"} \/ user.is_staff
  ELSE FALSE

IsManagerOrAbove(user) ==
  IF user.is_authenticated
  THEN user.role \in {"manager", "admin", "owner"} \/ user.is_staff
  ELSE FALSE

CanCreateUsers(user) ==
  IF user.is_authenticated
  THEN user.role \in {"admin", "owner"} \/ user.is_staff
  ELSE FALSE

CanManageProducts(user, method) ==
  IF user.is_authenticated
  THEN IF method \in SAFE_METHODS
       THEN TRUE
       ELSE user.role \in {"manager", "admin", "owner"} \/ user.is_staff
  ELSE FALSE

\* Model classes with an attribute named organization (models.py): every model
\* served by a BaseOrgViewSet except ProductImage.
HasOrganizationAttr(kind) == kind # "product-images"

\* Model classes with an attribute named created_by (models.py).
HasCreatedByAttr(kind) == kind \in {"products", "api-keys"}

\* IsSameOrganization.has_object_permission
IsSameOrganization(user, obj) ==
  IF ~user.is_authenticated
  THEN FALSE
  ELSE IF HasOrganizationAttr(obj.kind)
       THEN obj.organization = user.organization
       ELSE IF obj.kind = "users"
            THEN obj.organization = user.organization
            ELSE TRUE

\* permission_classes of each viewset (views.py).
permission_classes(kind) ==
  CASE kind = "products" -> <<"IsAuthenticated", "CanManageProducts", "IsSameOrganization">>
    [] kind \in {"subscriptions", "usage", "api-keys", "activity-logs"} ->
         <<"IsAuthenticated", "IsAdminOrOwner">>
    [] kind = "users" -> <<"IsAuthenticated", "CanCreateUsers">>
    [] kind = "categories" -> <<"IsAuthenticated", "IsManagerOrAbove">>
    [] OTHER -> <<"IsAuthenticated", "IsSameOrganization">>

\* has_permission of one permission class; a class that does not define it
\* inherits BasePermission.has_permission, which allows.
has_permission(cls, user, method) ==
  CASE cls = "IsAuthenticated" -> IsAuthenticated(user)
    [] cls = "IsAdminOrOwner" -> IsAdminOrOwner(user)
    [] cls = "IsManagerOrAbove" -> IsManagerOrAbove(user)
    [] cls = "CanCreateUsers" -> CanCreateUsers(user)
    [] cls = "CanManageProducts" -> CanManageProducts(user, method)
    [] OTHER -> TRUE

\* has_object_permission of one permission class; only IsSameOrganization
\* among the classes in use defines it.
has_object_permission(cls, user, obj) ==
  IF cls = "IsSameOrganization" THEN IsSameOrganization(user, obj) ELSE TRUE

\* APIView.check_permissions over a permission_classes list.
check_permissions(classes, user, method) ==
  \A i \in 1..Len(classes) : has_permission(classes[i], user, method)

\* APIView.check_object_permissions over a permission_classes list.
check_object_permissions(classes, user, obj) ==
  \A i \in 1..Len(classes) : has_object_permission(classes[i], user, obj)

\* http_method_names of each viewset.
http_method_names(kind) ==
  IF kind = "activity-logs"
  THEN {"GET", "HEAD", "OPTIONS", "DELETE"}
  ELSE {"GET", "POST", "PUT", "PATCH", "DELETE", "HEAD", "OPTIONS"}

-----------------------------------------------------------------------------
(* The tables, seen as the objects the viewsets serve.                     *)

Obj(kind, id, organization, user) ==
  [kind |-> kind, id |-> id, organization |-> organization, user |-> user]

\* Model.objects.all() of the model behind a collection.
Table(kind) ==
  CASE kind = "users" -> {Obj("users", u, u.organization, u) : u \in users}
    [] kind = "products" ->
         {Obj("products", p.id, p.organization, p.created_by) : p \in products}
    [] kind = "product-images" ->
         {Obj("product-images", i.id, None, NoUser) : i \in images}
    [] kind = "usage" ->
         {Obj("usage", <<u.organization, u.feature>>, u.organization, NoUser) : u \in usage}
    [] kind = "activity-logs" ->
         {Obj("activity-logs", l.id, l.organization, l.user) : l \in logs}
    [] OTHER -> {r \in rows : r.kind = kind}

\* The organization that owns an object: its own, or for a product image the
\* organization of its product.
OwnerOrg(obj) ==
  IF obj.kind = "product-images"
  THEN LET i == CHOOSE i \in images : i.id = obj.id
           p == CHOOSE p \in products : p.id = i.product
       IN  p.organization
  ELSE obj.organization

\* BaseOrgViewSet.get_queryset
BaseOrgViewSet_get_queryset(kind, user) ==
  IF user.organization # None /\ HasOrganizationAttr(kind)
  THEN {o \in Table(kind) : o.organization = user.organization}
  ELSE Table(kind)

\* The queryset without the filter on the recipient.
NotificationViewSet_get_queryset_unfiltered(user) ==
  BaseOrgViewSet_get_queryset("notifications", user)

\* NotificationViewSet.get_queryset
NotificationViewSet_get_queryset(user) ==
  {o \in BaseOrgViewSet_get_queryset("notifications", user) : o.user = user}

\* UserViewSet.get_queryset
UserViewSet_get_queryset(user) ==
  IF user.is_staff
  THEN Table("users")
  ELSE IF user.organization # None
       THEN {o \in Table("users") : o.organization = user.organization}
       ELSE {}

get_queryset(kind, user) ==
  CASE kind = "notifications" -> NotificationViewSet_get_queryset(user)
    [] kind = "users" -> UserViewSet_get_queryset(user)
    [] OTHER -> BaseOrgViewSet_get_queryset(kind, user)

-----------------------------------------------------------------------------
(* Request dispatch of a viewset.                                          *)

\* APIView.initial and the handler lookup of APIView.dispatch: 0 when the
\* request reaches its handler, otherwise the status of the error response.
Initial(kind, user, method) ==
  IF ~check_permissions(permission_classes(kind), user, method)
  THEN IF user.is_authenticated THEN 403 ELSE 401
  ELSE IF method \notin http_method_names(kind) THEN 405 ELSE 0

\* GenericAPIView.get_object: 404 when pk is not in the view's queryset, 403
\* when an object permission refuses, otherwise 0.
GetObjectStatus(kind, user, pk) ==
  LET found == {o \in get_queryset(kind, user) : o.id = pk}
  IN  IF found = {}
      THEN 404
      ELSE IF ~check_object_permissions(permission_classes(kind), user,
                                        CHOOSE o \in found : TRUE)
           THEN 403
           ELSE 0

\* Status of a detail request (retrieve, update, destroy) before its handler
\* body runs; 0 when the handler body runs on the object.
DetailStatus(kind, user, method, pk) ==
  IF Initial(kind, user, method) # 0
  THEN Initial(kind, user, method)
  ELSE GetObjectStatus(kind, user, pk)

Response(op, user, kind, pk, status, data, body, pre) ==
  [op |-> op, user |-> user, kind |-> kind, pk |-> pk, status |-> status,
   data |-> data, body |-> body, pre |-> pre]

NoResponse == Response("none", AnonymousUser, None, None, 0, {}, None, None)

\* A primary key of the collection's type that no row has.
MissingPk(kind) ==
  CASE kind = "users" -> NoUser
    [] kind \in {"products", "product-images", "activity-logs"} -> 0
    [] OTHER -> <<"missing", "missing">>

\* The primary keys a request may name: those of the rows of the collection,
\* in any organization, and one that does not exist.
PkInputs(kind) == {o.id : o \in Table(kind)} \cup {MissingPk(kind)}

\* The organization owning the row a detail request names, as the request
\* arrives; "missing" when the collection has no row with that pk.
TargetOrg(kind, pk) ==
  IF \E o \in Table(kind) : o.id = pk
  THEN OwnerOrg(CHOOSE o \in Table(kind) : o.id = pk)
  ELSE "missing"

-----------------------------------------------------------------------------
(* The database as a value, so that a handler is a function of it.         *)

DB ==
  [products |-> products, images |-> images, rows |-> rows, usage |-> usage,
   logs |-> logs, seq |-> seq, error |-> FALSE]

\* The usage period of the month the model runs in (signals.py, tasks.py:
\* current_month and next_month), and the period_end the organization
\* post_save handler writes (day 1, 23:59:59.999999, plus 31 days).
current_month == "current_month"
next_month == "next_month"
org_signal_period_end == "day1_end_plus_31_days"

\* ActivityLog.objects.create: organization is a non-null foreign key, so a
\* null organization raises IntegrityError.
ActivityLog_create(db, organization, user, action, resource_type, resource_id) ==
  IF organization = None
  THEN [db EXCEPT !.error = TRUE]
  ELSE [db EXCEPT
          !.logs = @ \cup {[id |-> db.seq.log + 1, organization |-> organization,
                            user |-> user, action |-> action,
                            resource_type |-> resource_type,
                            resource_id |-> resource_id]},
          !.seq.log = @ + 1]

\* signals.py create_product_activity (post_save of Product)
create_product_activity(db, instance, created) ==
  IF created
  THEN ActivityLog_create(db, instance.organization, instance.created_by,
                          "create", "Product", instance.id)
  ELSE ActivityLog_create(db, instance.organization, instance.updated_by,
                          "update", "Product", instance.id)

\* signals.py create_product_delete_activity (post_delete of Product)
create_product_delete_activity(db, instance) ==
  ActivityLog_create(db, instance.organization, NoUser, "delete", "Product", instance.id)

\* Usage.objects.get_or_create(organization, feature, period_start, period_end,
\* defaults): the row matching all four lookups, else a new row; the insert
\* raises IntegrityError when a row with the same (organization, feature,
\* period_start) exists (Usage.Meta.unique_together).  Then the handler's
\* increment when the row was found.
usage_get_or_create_increment(db, organization, feature, limit) ==
  LET same == {u \in db.usage : /\ u.organization = organization
                                /\ u.feature = feature
                                /\ u.period_start = current_month}
      found == {u \in same : u.period_end = next_month}
  IN  IF found # {}
      THEN [db EXCEPT !.usage =
              {IF u \in found THEN [u EXCEPT !.count = @ + 1] ELSE u : u \in @}]
      ELSE IF same # {}
           THEN [db EXCEPT !.error = TRUE]
           ELSE [db EXCEPT !.usage = @ \cup
                   {[organization |-> organization, feature |-> feature,
                     period_start |-> current_month, period_end |-> next_month,
                     count |-> 0, limit |-> limit]}]

\* Usage limit the product handler passes as default.
ProductUsageDefaultLimit == 100

\* signals.py update_product_count (post_save of Product)
update_product_count(db, instance, created) ==
  IF created /\ instance.organization # None
  THEN usage_get_or_create_increment(db, instance.organization, "products",
                                     ProductUsageDefaultLimit)
  ELSE db

\* Product.save followed by the post_save receivers in registration order.
\* The row is written before the receivers run; a receiver that raises
\* leaves the row written and stops the later receivers.
Product_save(db, instance, created) ==
  IF instance.organization = None
  THEN [db EXCEPT !.error = TRUE]
  ELSE LET written == [db EXCEPT !.products =
                         {p \in @ : p.id # instance.id} \cup {instance}]
           logged == create_product_activity(written, instance, created)
       IN  IF logged.error THEN logged ELSE update_product_count(logged, instance, created)

\* Product.delete: the images of the product go with it (on_delete CASCADE),
\* then the post_delete receiver runs.
Product_delete(db, instance) ==
  create_product_delete_activity(
    [db EXCEPT !.products = @ \ {instance},
               !.images = {i \in @ : i.product # instance.id}],
    instance)

\* request.organization as the analytics middleware reads it: no code sets
\* the attribute, so getattr returns its default.
request_organization == None

\* APIAnalyticsMiddleware._method_to_action
method_to_action(method) ==
  CASE method = "POST" -> "create"
    [] method = "PUT" -> "update"
    [] method = "PATCH" -> "update"
    [] method = "DELETE" -> "delete"
    [] OTHER -> "view"

\* APIAnalyticsMiddleware.process_response: the log entry of a mutating
\* request; an exception raised by the insert is swallowed.
process_response(db, user, method) ==
  IF method \in {"POST", "PUT", "PATCH", "DELETE"}
  THEN LET logged == ActivityLog_create([db EXCEPT !.error = FALSE], request_organization,
                                        IF user.is_authenticated THEN user ELSE NoUser,
                                        method_to_action(method), "API", 0)
       IN  IF logged.error THEN db ELSE [logged EXCEPT !.error = db.error]
  ELSE db

\* A new product as ModelSerializer.create builds it.
NewProduct(db, organization, created_by) ==
  [id |-> db.seq.product + 1, organization |-> organization,
   created_by |-> created_by, updated_by |-> NoUser, view_count |-> 0]

\* ModelSerializer.create through serializer.save(**kwargs) for a product.
Serializer_create(db, instance) ==
  Product_save([db EXCEPT !.seq.product = @ + 1], instance, TRUE)

\* BaseOrgViewSet.perform_create for ProductSerializer, whose validated_data
\* holds the organization of the request body.  The first serializer.save
\* creates the instance; a second serializer.save on the same serializer
\* updates that instance from validated_data and the keyword arguments.
BaseOrgViewSet_perform_create(db, user, body_org) ==
  LET first == IF user.organization # None /\ HasOrganizationAttr("products")
               THEN Serializer_create(db, NewProduct(db, user.organization, NoUser))
               ELSE db
      saved == first.seq.product # db.seq.product
      inst == NewProduct(db, user.organization, NoUser)
  IN  IF first.error \/ ~HasCreatedByAttr("products")
      THEN first
      ELSE IF saved
           THEN Product_save(first, [inst EXCEPT !.organization = body_org,
                                                 !.created_by = user], FALSE)
           ELSE Serializer_create(db, NewProduct(db, body_org, user))

-----------------------------------------------------------------------------
(* Initial store: two organizations, each with one product with one image, *)
(* one row in every collection, this month's usage rows and the log        *)
(* entries of the two product creations.  orgA's usage rows are those the  *)
(* metering task writes, orgB's those the organization handler writes.     *)

Owner(org) ==
  [id |-> 0, organization |-> org, role |-> "owner", is_staff |-> FALSE, is_authenticated |-> TRUE]

InitProducts ==
  {[id |-> 1, organization |-> "orgA", created_by |-> Owner("orgA"),
    updated_by |-> NoUser, view_count |-> 0],
   [id |-> 2, organization |-> "orgB", created_by |-> Owner("orgB"),
    updated_by |-> NoUser, view_count |-> 0]}

InitUsage ==
  {[organization |-> "orgA", feature |-> f, period_start |-> current_month,
    period_end |-> next_month, count |-> 1, limit |-> 100] : f \in {"users", "products"}}
  \cup
  {[organization |-> "orgB", feature |-> f, period_start |-> current_month,
    period_end |-> org_signal_period_end, count |-> 0,
    limit |-> IF f = "products" THEN 100 ELSE 1000] :
      f \in {"users", "products", "api_calls", "storage"}}

InitLogs ==
  {[id |-> p.id, organization |-> p.organization, user |-> p.created_by,
    action |-> "create", resource_type |-> "Product", resource_id |-> p.id] :
      p \in InitProducts}

InitOther ==
  /\ perm = None
  /\ pc = None
  /\ local = None
  /\ passwords = None

Init ==
  /\ users = InitUsers
  /\ products = InitProducts
  /\ images = {[id |-> 1, product |-> 1], [id |-> 2, product |-> 2]}
  /\ rows = {Obj(k, <<k, o>>, o, Owner(o)) : k \in RowKinds, o \in Orgs}
  /\ usage = InitUsage
  /\ logs = InitLogs
  /\ seq = [product |-> 2, log |-> 2]
  /\ mutations = 0
  /\ resp = NoResponse
  /\ InitOther

-----------------------------------------------------------------------------
(* The handlers.  Each is a function from the request and the database to  *)
(* the response and the database after it, the analytics middleware        *)
(* included.  A request is taken when no response is pending; Respond      *)
(* hands the pending response to the client.                               *)

Idle == resp.op = "none"

Result(response, db) == [resp |-> response, db |-> db]

\* The step of the server that handles one request with the given result.
\* mutations counts the requests that changed the database.
Handle(result) ==
  \E r \in {result} :
    LET changed == <<r.db.products, r.db.images, r.db.rows, r.db.usage, r.db.logs,
                     r.db.seq>> # <<products, images, rows, usage, logs, seq>>
    IN  /\ changed => mutations < MaxMutations
        /\ resp' = r.resp
        /\ products' = r.db.products
        /\ images' = r.db.images
        /\ rows' = r.db.rows
        /\ usage' = r.db.usage
        /\ logs' = r.db.logs
        /\ seq' = r.db.seq
        /\ mutations' = IF changed THEN mutations + 1 ELSE mutations
        /\ UNCHANGED <<users, perm, pc, local, passwords>>

\* ListModelMixin.list
list(db, user, kind) ==
  LET st == Initial(kind, user, "GET")
  IN  IF st # 0
      THEN Result(Response("list", user, kind, None, st, {}, None, None), db)
      ELSE Result(Response("list", user, kind, None, 200, get_queryset(kind, user),
                           None, None), db)

\* RetrieveModelMixin.retrieve
retrieve(db, user, kind, pk) ==
  LET st == DetailStatus(kind, user, "GET", pk)
  IN  IF st # 0
      THEN Result(Response("retrieve", user, kind, pk, st, {}, None, TargetOrg(kind, pk)), db)
      ELSE Result(Response("retrieve", user, kind, pk, 200,
                           {o \in get_queryset(kind, user) : o.id = pk},
                           None, TargetOrg(kind, pk)), db)

\* CreateModelMixin.create of ProductViewSet: body_org is the organization
\* field of the request body, None when the body has none (the field is
\* required by ProductSerializer).
ProductViewSet_create(db, user, body_org) ==
  LET st == Initial("products", user, "POST")
  IN  IF st # 0
      THEN Result(Response("create", user, "products", 0, st, {}, body_org, None),
                  process_response(db, user, "POST"))
      ELSE IF body_org = None
           THEN Result(Response("create", user, "products", 0, 400, {}, body_org, None),
                       process_response(db, user, "POST"))
           ELSE LET done == BaseOrgViewSet_perform_create(db, user, body_org)
                IN  Result(Response("create", user, "products", db.seq.product + 1,
                                    IF done.error THEN 500 ELSE 201, {}, body_org, None),
                           process_response(done, user, "POST"))

\* UpdateModelMixin.update / partial_update.  For a product the body may name
\* an organization (required by PUT); the rows of the other collections are
\* updated in fields the model does not follow.
update(db, user, kind, method, pk, body_org) ==
  LET st == DetailStatus(kind, user, method, pk)
  IN  IF st # 0
      THEN Result(Response("update", user, kind, pk, st, {}, body_org, TargetOrg(kind, pk)),
                  process_response(db, user, method))
      ELSE IF kind = "products" /\ method = "PUT" /\ body_org = None
           THEN Result(Response("update", user, kind, pk, 400, {}, body_org, TargetOrg(kind, pk)),
                       process_response(db, user, method))
           ELSE IF kind = "products"
                THEN LET old == CHOOSE p \in db.products : p.id = pk
                         done == Product_save(db,
                                   IF body_org = None THEN old
                                   ELSE [old EXCEPT !.organization = body_org], FALSE)
                     IN  Result(Response("update", user, kind, pk,
                                         IF done.error THEN 500 ELSE 200,
                                         {}, body_org, TargetOrg(kind, pk)),
                                process_response(done, user, method))
                ELSE Result(Response("update", user, kind, pk, 200,
                                     {o \in get_queryset(kind, user) : o.id = pk},
                                     body_org, TargetOrg(kind, pk)),
                            process_response(db, user, method))

\* Model.delete of the object a destroy request names.
Model_delete(db, kind, pk) ==
  CASE kind = "products" ->
         Product_delete(db, CHOOSE p \in db.products : p.id = pk)
    [] kind = "product-images" -> [db EXCEPT !.images = {i \in @ : i.id # pk}]
    [] kind = "usage" ->
         [db EXCEPT !.usage = {u \in @ : <<u.organization, u.feature>> # pk}]
    [] kind = "activity-logs" -> [db EXCEPT !.logs = {l \in @ : l.id # pk}]
    [] OTHER -> [db EXCEPT !.rows = {r \in @ : ~(r.kind = kind /\ r.id = pk)}]

\* DestroyModelMixin.destroy
destroy(db, user, kind, pk) ==
  LET st == DetailStatus(kind, user, "DELETE", pk)
  IN  IF st # 0
      THEN Result(Response("destroy", user, kind, pk, st, {}, None, TargetOrg(kind, pk)),
                  process_response(db, user, "DELETE"))
      ELSE LET done == Model_delete(db, kind, pk)
           IN  Result(Response("destroy", user, kind, pk,
                               IF done.error THEN 500 ELSE 204, {}, None, TargetOrg(kind, pk)),
                      process_response(done, user, "DELETE"))

\* The view_count of the product with the given pk, 0 when there is none.
ViewCount(pk) ==
  IF \E p \in products : p.id = pk
  THEN (CHOOSE p \in products : p.id = pk).view_count
  ELSE 0

\* ProductViewSet.increment_view: pre records the view_count of the product
\* before the request.
increment_view(db, user, pk) ==
  LET st == Initial("products", user, "POST")
  IN  IF st # 0
      THEN Result(Response("increment_view", user, "products", pk, st, {}, None,
                           ViewCount(pk)),
                  process_response(db, user, "POST"))
      ELSE Result(Response("increment_view", user, "products", pk, 200, {}, None,
                           ViewCount(pk)),
                  process_response(
                    [db EXCEPT !.products =
                       {IF p.id = pk THEN [p EXCEPT !.view_count = @ + 1] ELSE p : p \in @}],
                    user, "POST"))

\* ProductListView.get_queryset
ProductListView_get_queryset(user) ==
  IF user.organization # None
  THEN {o \in Table("products") : o.organization = user.organization}
  ELSE {}

\* ProductListView (GET products/ of the app's urls)
ProductListView_get(db, user) ==
  IF ~IsAuthenticated(user)
  THEN Result(Response("product_list_view", user, "products", None, 401, {}, None, None), db)
  ELSE Result(Response("product_list_view", user, "products", None, 200,
                       ProductListView_get_queryset(user), None, None), db)

\* permission_classes of AdminProductView
AdminProductView_permission_classes == <<"IsAuthenticated", "CanManageProducts">>

\* Status of APIView.initial for AdminProductView, 0 when the handler runs.
AdminProductView_initial(user, method) ==
  IF check_permissions(AdminProductView_permission_classes, user, method)
  THEN 0
  ELSE IF user.is_authenticated THEN 403 ELSE 401

\* AdminProductView.post
AdminProductView_post(db, user, body_org) ==
  LET st == AdminProductView_initial(user, "POST")
  IN  IF st # 0
      THEN Result(Response("admin_post", user, "products", 0, st, {}, body_org, None),
                  process_response(db, user, "POST"))
      ELSE IF body_org = None
           THEN Result(Response("admin_post", user, "products", 0, 400, {}, body_org, None),
                       process_response(db, user, "POST"))
           ELSE LET done == Serializer_create(db, NewProduct(db, user.organization, user))
                IN  Result(Response("admin_post", user, "products", db.seq.product + 1,
                                    IF done.error THEN 500 ELSE 201, {}, body_org, None),
                           process_response(done, user, "POST"))

\* Status of the body of AdminProductView.delete: 404 when no product has the
\* id in the actor's organization, 403 when the role may not delete, 204 when
\* the product is deleted.
AdminProductView_delete_status(db, user, product_id) ==
  IF ~\E p \in db.products : p.id = product_id /\ p.organization = user.organization
  THEN 404
  ELSE IF ~(user.role \in {"admin", "owner"}) THEN 403 ELSE 204

\* AdminProductView.delete
AdminProductView_delete(db, user, product_id) ==
  LET st == AdminProductView_initial(user, "DELETE")
      body == AdminProductView_delete_status(db, user, product_id)
  IN  IF st # 0
      THEN Result(Response("admin_delete", user, "products", product_id, st,
      {}, None, TargetOrg("products", product_id)),
                  process_response(db, user, "DELETE"))
      ELSE IF body # 204
           THEN Result(Response("admin_delete", user, "products", product_id, body, {},
                                None, TargetOrg("products", product_id)),
                       process_response(db, user, "DELETE"))
           ELSE LET done == Product_delete(db, CHOOSE p \in db.products : p.id = product_id)
                IN  Result(Response("admin_delete", user, "products", product_id,
                                    IF done.error THEN 500 ELSE 204,
                                    {}, None, TargetOrg("products", product_id)),
                           process_response(done, user, "DELETE"))

-----------------------------------------------------------------------------
(* The actions: one per endpoint.                                          *)

BodyOrgs == Orgs \cup {None}

\* The organization a request body of an update may name.
UpdateBodies(kind) == IF kind = "products" THEN BodyOrgs ELSE {None}

List == Idle /\ \E user \in Actors, kind \in Kinds : Handle(list(DB, user, kind))

Retrieve ==
  Idle /\ \E user \in Actors, kind \in Kinds : \E pk \in PkInputs(kind) :
    Handle(retrieve(DB, user, kind, pk))

ProductCreate ==
  Idle /\ \E user \in Actors, body_org \in BodyOrgs :
    /\ seq.product < MaxProducts
    /\ Handle(ProductViewSet_create(DB, user, body_org))

Update ==
  Idle /\ \E user \in Actors, kind \in Kinds \ {"users"}, method \in {"PUT", "PATCH"} :
    \E pk \in PkInputs(kind), body_org \in UpdateBodies(kind) :
      Handle(update(DB, user, kind, method, pk, body_org))

Destroy ==
  Idle /\ \E user \in Actors, kind \in Kinds \ {"users"} : \E pk \in PkInputs(kind) :
    Handle(destroy(DB, user, kind, pk))

IncrementView ==
  Idle /\ \E user \in Actors : \E pk \in PkInputs("products") :
    /\ ViewCount(pk) < MaxViews
    /\ Handle(increment_view(DB, user, pk))

ProductList == Idle /\ \E user \in Actors : Handle(ProductListView_get(DB, user))

AdminProductPost ==
  Idle /\ \E user \in Actors, body_org \in BodyOrgs :
    /\ seq.product < MaxProducts
    /\ Handle(AdminProductView_post(DB, user, body_org))

AdminProductDelete ==
  Idle /\ \E user \in Actors : \E pk \in PkInputs("products") :
    Handle(AdminProductView_delete(DB, user, pk))

\* The response leaves the server.
Respond ==
  /\ ~Idle
  /\ resp' = NoResponse
  /\ UNCHANGED <<users, products, images, rows, usage, logs, seq, mutations>>
  /\ UNCHANGED <<perm, pc, local, passwords>>

Next ==
  \/ List
  \/ Retrieve
  \/ ProductCreate
  \/ Update
  \/ Destroy
  \/ IncrementView
  \/ ProductList
  \/ AdminProductPost
  \/ AdminProductDelete
  \/ Respond

Spec == Init /\ [][Next]_vars

-----------------------------------------------------------------------------
(* Claims about the tenant-scoped endpoints, checked under Spec.           *)

Denied == resp.status \in {401, 403, 404}

\* A detail request by a user who is not staff for a row owned by an
\* organization other than the user's own (a user without organization
\* included).
CrossTenantDetail ==
  /\ resp.op \in {"retrieve", "update", "destroy"}
  /\ resp.user.is_authenticated
  /\ ~resp.user.is_staff
  /\ resp.pre \in Orgs
  /\ resp.pre # resp.user.organization

\* C1: a product created through ProductViewSet (POST) or AdminProductView.post
\* by a member of an organization is stored with the organization of the
\* actor, whatever organization the request body names, once every save of
\* perform_create has run.
C1_CreateStampsActorOrganization ==
  (/\ resp.op \in {"create", "admin_post"}
   /\ resp.status = 201
   /\ resp.user.organization \in Orgs) =>
    \A p \in products : p.id = resp.pk => p.organization = resp.user.organization

\* C2: every retrieve, update and delete by a non-staff actor on a row of
\* another organization is denied, whatever the actor's role.
C2_CrossTenantDetailDenied == CrossTenantDetail => Denied

\* C3: a list answered to a non-staff actor holds no row of another
\* organization.
C3_ListOnlyOwnOrganization ==
  (/\ resp.op \in {"list", "product_list_view"}
   /\ resp.status = 200
   /\ ~resp.user.is_staff) =>
    \A o \in resp.data : OwnerOrg(o) = resp.user.organization

\* C4: increment_view by a non-staff actor on a product of another
\* organization leaves the product's view_count as it was.
C4_IncrementViewChecksOrganization ==
  (/\ resp.op = "increment_view"
   /\ ~resp.user.is_staff
   /\ TargetOrg("products", resp.pk) \in Orgs \ {resp.user.organization}) =>
    ViewCount(resp.pk) = resp.pre

\* C5: a staff actor is never refused and never has a row hidden: a detail
\* request of a staff actor for an existing row is answered neither 403 nor
\* 404, and a list answered to a staff actor holds every row of the
\* collection.
C5_StaffAlwaysAllowed ==
  /\ (/\ resp.op \in {"retrieve", "update", "destroy", "admin_delete"}
      /\ resp.user.is_staff
      /\ resp.pre # "missing") => resp.status \notin {403, 404}
  /\ (resp.op = "list" /\ resp.user.is_staff) =>
       (resp.status = 200 /\ resp.data = Table(resp.kind))

\* C6: a read by an authenticated member of an organization is allowed for
\* every role on every collection: a list is answered 200, and so is the
\* retrieve of a row of the member's own organization.
C6_SameTenantReadAllowed ==
  /\ (/\ resp.op = "list"
      /\ resp.user.is_authenticated
      /\ resp.user.organization \in Orgs) => resp.status = 200
  /\ (/\ resp.op = "retrieve"
      /\ resp.user.is_authenticated
      /\ resp.pre = resp.user.organization
      /\ resp.pre \in Orgs) => resp.status = 200

\* C10: a viewer's DELETE of a product of the viewer's organization is
\* answered 403, and of a product of another organization 404, on the
\* ProductViewSet destroy endpoint and on AdminProductView.delete.
ViewerDeletesProduct ==
  /\ resp.op \in {"destroy", "admin_delete"}
  /\ resp.kind = "products"
  /\ resp.user.role = "viewer"
  /\ ~resp.user.is_staff
  /\ resp.user.organization \in Orgs
  /\ resp.pre \in Orgs

C10_ViewerDeleteProduct ==
  /\ (ViewerDeletesProduct /\ resp.pre = resp.user.organization) => resp.status = 403
  /\ (ViewerDeletesProduct /\ resp.pre # resp.user.organization) => resp.status = 404

-----------------------------------------------------------------------------
(* models.py: the role table of User.has_permission.  SpecPerm asks the    *)
(* table about one permission for a pair of roles.                         *)

\* The permissions the table names, and one it does not.
Permissions ==
  {"all", "create_user", "delete_user", "create_product", "delete_product",
   "view_analytics", "edit_product", "view_products", "create_order",
   "export_data"}

\* role_permissions.get(self.role, [])
role_permissions(role) ==
  CASE role = "owner" -> {"all"}
    [] role = "admin" -> {"create_user", "delete_user", "create_product",
                          "delete_product", "view_analytics"}
    [] role = "manager" -> {"create_product", "edit_product", "view_products"}
    [] role = "user" -> {"view_products", "create_order"}
    [] role = "viewer" -> {"view_products"}
    [] OTHER -> {}

\* User.has_permission
User_has_permission(role, permission) ==
  permission \in role_permissions(role) \/ "all" \in role_permissions(role)

storeVars == <<users, products, images, rows, usage, logs, seq, mutations, resp>>

InitNoStore ==
  /\ users = {}
  /\ products = {}
  /\ images = {}
  /\ rows = {}
  /\ usage = {}
  /\ logs = {}
  /\ seq = [product |-> 0, log |-> 0, user |-> 0]
  /\ mutations = 0
  /\ resp = NoResponse

InitPerm ==
  /\ InitNoStore
  /\ perm \in [X : ROLE_CHOICES, Y : ROLE_CHOICES, K : Permissions,
               asked : {FALSE}, x : {FALSE}, y : {FALSE}]
  /\ pc = None
  /\ local = None
  /\ passwords = None

\* user.has_permission(K) for a user of role X and for a user of role Y.
HasPermission ==
  /\ ~perm.asked
  /\ perm' = [perm EXCEPT !.asked = TRUE,
                          !.x = User_has_permission(perm.X, perm.K),
                          !.y = User_has_permission(perm.Y, perm.K)]
  /\ UNCHANGED <<storeVars, pc, local, passwords>>

NextPerm == HasPermission

SpecPerm == InitPerm /\ [][NextPerm]_vars

\* The hierarchy owner >= admin >= manager >= user/viewer.
RoleRank(role) ==
  CASE role = "owner" -> 4
    [] role = "admin" -> 3
    [] role = "manager" -> 2
    [] OTHER -> 1

\* C7: the role table is monotone over the hierarchy: a permission granted
\* to role X is granted to every role Y strictly more privileged than X.
C7_RoleTableMonotone ==
  (perm.asked /\ RoleRank(perm.Y) > RoleRank(perm.X) /\ perm.x) => perm.y

-----------------------------------------------------------------------------
(* views.py ChangePasswordView.  SpecPwd runs password changes of two      *)
(* users, one a member of orgA and one without an organization.            *)
(* mutations counts the requests that stored a password.                   *)

MaxPasswordChanges == 2

\* Raw passwords of a request; "" is an absent or empty field.
RawPasswords == {"", "12345", "correct-horse", "tr0ub4dor-and-3"}

\* Salts make_password may draw.
Salts == {1, 2}

\* django.contrib.auth.hashers.make_password: the encoded form holds the
\* algorithm, the salt and the digest of salt and raw password.
make_password(raw, salt) ==
  [algorithm |-> "pbkdf2_sha256", salt |-> salt, hash |-> <<salt, raw>>]

\* An unusable password, as set_unusable_password stores it.
UnusablePassword == [algorithm |-> "!", salt |-> 0, hash |-> <<0, "">>]

\* AbstractBaseUser.check_password
check_password(raw, encoded) ==
  /\ encoded.algorithm = "pbkdf2_sha256"
  /\ encoded.hash = <<encoded.salt, raw>>

\* validate_password(new_password, user) raises no exception: the verdict of
\* the configured validators, which reject the short numeric password.
validate_password(raw) == raw # "12345"

PwdUsers ==
  {[id |-> 0, organization |-> o, role |-> "user", is_staff |-> FALSE,
    is_authenticated |-> TRUE] : o \in {"orgA", None}}

StoredPasswords ==
  {make_password(raw, salt) : raw \in RawPasswords \ {""}, salt \in Salts}
    \cup {UnusablePassword}

InitPwd ==
  /\ InitNoStore
  /\ passwords \in [PwdUsers -> StoredPasswords]
  /\ perm = None
  /\ pc = None
  /\ local = None

\* signals.py create_user_profile_activity (post_save of User)
create_user_profile_activity(db, instance, created) ==
  ActivityLog_create(db, instance.organization, instance,
                     IF created THEN "create" ELSE "update", "User", instance.id)

\* ChangePasswordView.post without the verification of old_password.
ChangePasswordView_post_unverified(db, stored, user, old_password, new_password, salt) ==
  LET unchanged(status) == [status |-> status, passwords |-> stored, db |-> db]
  IN  IF ~IsAuthenticated(user) THEN unchanged(401)
      ELSE IF new_password = "" THEN unchanged(400)
      ELSE IF old_password = "" THEN unchanged(400)
      ELSE IF ~validate_password(new_password) THEN unchanged(400)
      ELSE LET saved == [stored EXCEPT ![user] = make_password(new_password, salt)]
               logged == create_user_profile_activity(db, user, FALSE)
           IN  [status |-> IF logged.error THEN 500 ELSE 200,
                passwords |-> saved,
                db |-> IF logged.error THEN db ELSE logged]

\* ChangePasswordView.post, from dispatch to the response: the status, the
\* stored passwords and the database after the request.  user.save() writes
\* the row before the post_save receivers run, so a receiver that raises
\* answers 500 with the new password stored.
ChangePasswordView_post(db, stored, user, old_password, new_password, salt) ==
  LET unchanged(status) == [status |-> status, passwords |-> stored, db |-> db]
  IN  IF ~IsAuthenticated(user) THEN unchanged(401)
      ELSE IF new_password = "" THEN unchanged(400)
      ELSE IF old_password = "" THEN unchanged(400)
      ELSE IF ~check_password(old_password, stored[user]) THEN unchanged(400)
      ELSE IF ~validate_password(new_password) THEN unchanged(400)
      ELSE LET saved == [stored EXCEPT ![user] = make_password(new_password, salt)]
               logged == create_user_profile_activity(db, user, FALSE)
           IN  [status |-> IF logged.error THEN 500 ELSE 200,
                passwords |-> saved,
                db |-> IF logged.error THEN db ELSE logged]

ChangePassword ==
  /\ Idle
  /\ \E user \in PwdUsers \cup {AnonymousUser}, old_password \in RawPasswords,
        new_password \in RawPasswords, salt \in Salts :
       \E r \in {ChangePasswordView_post(DB, passwords, user, old_password,
                                         new_password, salt)} :
         /\ r.status \in {200, 500} => mutations < MaxPasswordChanges
         /\ mutations' = IF r.status \in {200, 500} THEN mutations + 1 ELSE mutations
         /\ passwords' = r.passwords
         /\ logs' = r.db.logs
         /\ seq' = r.db.seq
         /\ resp' = Response("change_password", user, "users", user, r.status, {},
                             [old_password |-> old_password,
                              new_password |-> new_password],
                             IF user \in PwdUsers THEN passwords[user]
                                                  ELSE UnusablePassword)
  /\ UNCHANGED <<users, products, images, rows, usage, perm, pc, local>>

NextPwd ==
  \/ ChangePassword
  \/ Respond

SpecPwd == InitPwd /\ [][NextPwd]_vars

ChangePasswordAnswered ==
  /\ resp.op = "change_password"
  /\ resp.user \in PwdUsers

\* C9: a change-password request whose old_password does not match the
\* actor's current password is answered 400 and leaves the stored password
\* unchanged; the stored password is replaced only when old_password
\* matches, new_password is present and new_password passes validation.
C9_ChangePasswordRequiresOldPassword ==
  ChangePasswordAnswered =>
    /\ ~check_password(resp.body.old_password, resp.pre) =>
         /\ resp.status = 400
         /\ passwords[resp.user] = resp.pre
    /\ passwords[resp.user] # resp.pre =>
         /\ check_password(resp.body.old_password, resp.pre)
         /\ resp.body.new_password # ""
         /\ validate_password(resp.body.new_password)

\* A request with a wrong old password and a valid new one was answered.
C9_WrongOldPasswordAnswered ==
  /\ ChangePasswordAnswered
  /\ resp.body.old_password # ""
  /\ ~check_password(resp.body.old_password, resp.pre)
  /\ resp.pre # UnusablePassword
  /\ resp.body.new_password # ""
  /\ validate_password(resp.body.new_password)
  /\ resp.status = 400

-----------------------------------------------------------------------------
(* signals.py update_product_count and update_user_count under concurrent  *)
(* creations.  SpecUsage runs NumCreators requests of orgA, each creating   *)
(* a product or a user; a step is one statement on the usage table.  The   *)
(* insert of the entity and of its log entry touch no row another request   *)
(* touches and are taken together with the first read of the usage table.  *)

NumCreators == 2

Creators == 1 .. NumCreators

\* Usage limit the user handler passes as default.
UserUsageDefaultLimit == 5

UsageDefaultLimit(feature) ==
  IF feature = "products" THEN ProductUsageDefaultLimit ELSE UserUsageDefaultLimit

\* The rows of one (organization, feature, period_start).
UsageRows(organization, feature) ==
  {u \in usage : /\ u.organization = organization
                 /\ u.feature = feature
                 /\ u.period_start = current_month}

\* The rows self.get(**kwargs) of get_or_create matches.
UsageFound(organization, feature) ==
  {u \in UsageRows(organization, feature) : u.period_end = next_month}

\* The entities of orgA the metering task counts.
EntityCount(feature) ==
  IF feature = "products"
  THEN Cardinality({p \in products : p.organization = "orgA"})
  ELSE Cardinality({u \in users : u.organization = "orgA"})

\* The usage row of a feature before the creations: none, the row the
\* metering task wrote (tasks.py calculate_monthly_usage), or the row the
\* organization handler wrote (signals.py create_organization_subscription).
InitUsageRow(feature, choice, count) ==
  CASE choice = "metered" ->
         {[organization |-> "orgA", feature |-> feature,
           period_start |-> current_month, period_end |-> next_month,
           count |-> count, limit |-> 100]}
    [] choice = "signal" ->
         {[organization |-> "orgA", feature |-> feature,
           period_start |-> current_month, period_end |-> org_signal_period_end,
           count |-> 0, limit |-> IF feature = "products" THEN 100 ELSE 1000]}
    [] OTHER -> {}

InitUsageSpec ==
  /\ users = {Owner("orgA")}
  /\ products = {}
  /\ images = {}
  /\ rows = {}
  /\ \E cp \in {"absent", "metered", "signal"}, cu \in {"absent", "metered", "signal"} :
       usage = InitUsageRow("products", cp, 0) \cup InitUsageRow("users", cu, 1)
  /\ logs = {}
  /\ seq = [product |-> 0, log |-> 0, user |-> 0]
  /\ mutations = 0
  /\ resp = NoResponse
  /\ perm = None
  /\ pc = [i \in Creators |-> "save"]
  /\ local \in [Creators -> [feature : {"products", "users"}, count : {0},
                             created_usage : {FALSE}]]
  /\ passwords = None

\* The first statement of get_or_create after the entity is saved: the row
\* is loaded, or the insert comes next.
Loaded(i, organization, feature) ==
  IF UsageFound(organization, feature) # {}
  THEN \E u \in UsageFound(organization, feature) :
         /\ local' = [local EXCEPT ![i].count = u.count]
         /\ pc' = [pc EXCEPT ![i] = "update"]
  ELSE /\ pc' = [pc EXCEPT ![i] = "create"]
       /\ UNCHANGED local

\* Model.save of a new product or user of orgA with its post_save receivers
\* up to the read of get_or_create.
Save(i) ==
  /\ pc[i] = "save"
  /\ IF local[i].feature = "products"
     THEN \E inst \in {NewProduct(DB, "orgA", Owner("orgA"))} :
            \E db \in {create_product_activity(
                         [DB EXCEPT !.seq.product = @ + 1, !.products = @ \cup {inst}],
                         inst, TRUE)} :
              /\ products' = db.products
              /\ logs' = db.logs
              /\ seq' = db.seq
              /\ UNCHANGED users
     ELSE \E inst \in {[id |-> seq.user + 1, organization |-> "orgA", role |-> "user",
                        is_staff |-> FALSE, is_authenticated |-> TRUE]} :
            \E db \in {create_user_profile_activity(
                         [DB EXCEPT !.seq.user = @ + 1], inst, TRUE)} :
              /\ users' = users \cup {inst}
              /\ logs' = db.logs
              /\ seq' = db.seq
              /\ UNCHANGED products
  /\ Loaded(i, "orgA", local[i].feature)
  /\ UNCHANGED <<images, rows, usage, mutations, resp, perm, passwords>>

\* self.create(**params) of get_or_create: the insert, which raises
\* IntegrityError when a row of the same (organization, feature,
\* period_start) exists.
Create(i) ==
  /\ pc[i] = "create"
  /\ IF UsageRows("orgA", local[i].feature) # {}
     THEN /\ pc' = [pc EXCEPT ![i] = "reget"]
          /\ UNCHANGED <<usage, local>>
     ELSE /\ usage' = usage \cup
                 {[organization |-> "orgA", feature |-> local[i].feature,
                   period_start |-> current_month, period_end |-> next_month,
                   count |-> 0, limit |-> UsageDefaultLimit(local[i].feature)]}
          /\ local' = [local EXCEPT ![i].created_usage = TRUE]
          /\ pc' = [pc EXCEPT ![i] = "done"]
  /\ UNCHANGED <<users, products, images, rows, logs, seq, mutations, resp, perm, passwords>>

\* The second self.get(**kwargs) of get_or_create, after IntegrityError: the
\* row another request inserted, else the error is raised again.
Reget(i) ==
  /\ pc[i] = "reget"
  /\ IF UsageFound("orgA", local[i].feature) # {}
     THEN \E u \in UsageFound("orgA", local[i].feature) :
            /\ local' = [local EXCEPT ![i].count = u.count]
            /\ pc' = [pc EXCEPT ![i] = "update"]
     ELSE /\ pc' = [pc EXCEPT ![i] = "failed"]
          /\ UNCHANGED local
  /\ UNCHANGED <<users, products, images, rows, usage, logs, seq, mutations, resp, perm, passwords>>

\* usage.count += 1; usage.save(): the loaded count plus one is written.
UpdateCount(i) ==
  /\ pc[i] = "update"
  /\ usage' = {IF u \in UsageFound("orgA", local[i].feature)
               THEN [u EXCEPT !.count = local[i].count + 1] ELSE u : u \in usage}
  /\ pc' = [pc EXCEPT ![i] = "done"]
  /\ UNCHANGED <<users, products, images, rows, logs, seq, mutations, resp, perm, local, passwords>>

NextUsage ==
  \/ \E i \in Creators : Save(i)
  \/ \E i \in Creators : Create(i)
  \/ \E i \in Creators : Reget(i)
  \/ \E i \in Creators : UpdateCount(i)

SpecUsage == InitUsageSpec /\ [][NextUsage]_vars

\* C8: when concurrent creations of products (or users) of one organization
\* have all finished and each incremented the existing usage row of the
\* period, the row's count has grown by exactly the number of creations, so
\* that it still equals the number of the organization's entities.
C8_UsageIncrementAtomic ==
  (\A i \in Creators : pc[i] = "done" /\ ~local[i].created_usage) =>
    \A i \in Creators :
      \A u \in UsageFound("orgA", local[i].feature) :
        u.count = EntityCount(local[i].feature)

-----------------------------------------------------------------------------
(* tasks.py send_usage_alerts and send_usage_alert_notification.           *)
(* SpecAlerts runs the periodic task up to MaxAlertRuns times; the         *)
(* subtasks it queues are delivered one at a time, in any order.  A usage  *)
(* row is named by its organization and feature; pc holds the number of    *)
(* queued subtasks of each row, mutations the number of runs.              *)

MaxAlertRuns == 2

last_month == "last_month"

\* A second owner of orgA.
SecondOwner ==
  [id |-> 1, organization |-> "orgA", role |-> "owner", is_staff |-> FALSE,
   is_authenticated |-> TRUE]

AlertUsers ==
  {Owner("orgA"), SecondOwner, Owner("orgB"),
   [id |-> 0, organization |-> "orgA", role |-> "manager", is_staff |-> FALSE,
    is_authenticated |-> TRUE]}

AlertUsageIds == {<<"orgA", "users">>, <<"orgA", "products">>, <<"orgB", "users">>}

UsageId(u) == <<u.organization, u.feature>>

\* Usage.usage_percentage >= 80; a null limit and a limit of 0 both give 0.
AtOrAboveThreshold(u) ==
  IF u.limit > 0 THEN u.count * 100 >= 80 * u.limit ELSE FALSE

\* period_start <= now <= period_end
InCurrentPeriod(u) == u.period_start = current_month

InitAlerts ==
  /\ users = AlertUsers
  /\ products = {}
  /\ images = {}
  /\ rows = {}
  /\ \E count \in [AlertUsageIds -> {3, 4}], limit \in [AlertUsageIds -> {0, 5}],
        start \in {current_month, last_month} :
       usage = {[organization |-> id[1], feature |-> id[2],
                 period_start |-> IF id[1] = "orgB" THEN start ELSE current_month,
                 period_end |-> IF id[1] = "orgB" /\ start = last_month
                                THEN current_month ELSE next_month,
                 count |-> count[id], limit |-> limit[id]] : id \in AlertUsageIds}
  /\ logs = {}
  /\ seq = [product |-> 0, log |-> 0, user |-> 0, notification |-> 0]
  /\ mutations = 0
  /\ resp = NoResponse
  /\ perm = None
  /\ pc = [id \in AlertUsageIds |-> 0]
  /\ local = None
  /\ passwords = None

\* send_usage_alerts: one subtask is queued for every row of the current
\* period at or above the threshold.
send_usage_alerts ==
  /\ mutations < MaxAlertRuns
  /\ mutations' = mutations + 1
  /\ pc' = [id \in AlertUsageIds |->
              IF \E u \in usage : /\ UsageId(u) = id
                                  /\ InCurrentPeriod(u)
                                  /\ AtOrAboveThreshold(u)
              THEN pc[id] + 1 ELSE pc[id]]
  /\ UNCHANGED <<users, products, images, rows, usage, logs, seq, resp, perm,
                 local, passwords>>

\* The notifications Notification.objects.create adds for the owners, one
\* after the other, numbered from n + 1.
RECURSIVE CreateNotifications(_, _, _)
CreateNotifications(owners, u, n) ==
  IF owners = {} THEN {}
  ELSE LET owner == CHOOSE o \in owners : TRUE
       IN  {[id |-> n + 1, user |-> owner, organization |-> u.organization,
             title |-> u.feature, notification_type |-> "warning",
             is_read |-> FALSE]}
             \cup CreateNotifications(owners \ {owner}, u, n + 1)

\* send_usage_alert_notification(usage_id), run by a worker.
send_usage_alert_notification(usage_id) ==
  /\ pc[usage_id] > 0
  /\ pc' = [pc EXCEPT ![usage_id] = @ - 1]
  /\ \E u \in {v \in usage : UsageId(v) = usage_id} :
       LET owners == {o \in users : o.organization = u.organization /\ o.role = "owner"}
       IN  /\ rows' = rows \cup CreateNotifications(owners, u, seq.notification)
           /\ seq' = [seq EXCEPT !.notification = @ + Cardinality(owners)]
  /\ UNCHANGED <<users, products, images, usage, logs, mutations, resp, perm,
                 local, passwords>>

NextAlerts ==
  \/ send_usage_alerts
  \/ \E usage_id \in AlertUsageIds : send_usage_alert_notification(usage_id)

SpecAlerts == InitAlerts /\ [][NextAlerts]_vars

\* The warnings an owner holds about a usage row.
AlertsFor(u, owner) ==
  {n \in rows : /\ n.user = owner
                /\ n.organization = u.organization
                /\ n.title = u.feature
                /\ n.notification_type = "warning"}

\* C11: however often send_usage_alerts and its subtasks run within a
\* period, an owner holds at most one warning about a usage row.
C11_OneAlertPerOwnerAndPeriod ==
  \A u \in usage : \A owner \in users : Cardinality(AlertsFor(u, owner)) <= 1

-----------------------------------------------------------------------------
(* Audit failures, checked under SpecPwd, where a user without an          *)
(* organization is saved.                                                  *)

\* C12: a failing ActivityLog insert is swallowed and the primary operation
\* completes: a change-password request that passes every check of the
\* view, and so saves the user, is answered 200 also for a user without
\* an organization.
C12_AuditFailureSwallowed ==
  (/\ ChangePasswordAnswered
   /\ check_password(resp.body.old_password, resp.pre)
   /\ resp.body.new_password # ""
   /\ validate_password(resp.body.new_password)) => resp.status = 200

-----------------------------------------------------------------------------
(* Further claims about the tenant-scoped endpoints, checked under Spec.   *)

\* C13: a log entry, once written, stays in the log under every request of
\* a non-staff user on the activity-logs collection: after such a request
\* for an existing entry the entry is still there.
C13_ActivityLogImmutable ==
  (/\ resp.kind = "activity-logs"
   /\ resp.op \in {"retrieve", "update", "destroy"}
   /\ ~resp.user.is_staff
   /\ resp.pre \in Orgs) => \E l \in logs : l.id = resp.pk

\* C14: a request of an authenticated non-staff user for a row of another
\* organization is answered 404, as a request for a missing row is, on the
\* detail endpoints of the viewsets and on AdminProductView.delete.
C14_CrossTenantNotFound ==
  (/\ resp.op \in {"retrieve", "update", "destroy", "admin_delete"}
   /\ resp.user.is_authenticated
   /\ ~resp.user.is_staff
   /\ resp.pre \in Orgs
   /\ resp.pre # resp.user.organization) => resp.status = 404

-----------------------------------------------------------------------------
(* tasks.py calculate_monthly_usage.  SpecMeter runs the metering task     *)
(* NumRuns times, the runs overlapping in any way, while products are      *)
(* created and deleted.  perm holds the active organizations in the order  *)
(* of the task's loop (Organization.Meta.ordering, newest first); pc and   *)
(* local hold the position of each run; mutations counts the changes to    *)
(* the product table.                                                      *)

NumRuns == 2

MaxMeterChanges == 1

Runs == 1 .. NumRuns

\* get_plan_limit: the default when the settings name no limit for the plan.
PlanLimit == 100

\* User.objects.filter(organization=org).count() and
\* Product.objects.filter(organization=org).count()
MeterCount(org, feature) ==
  IF feature = "products"
  THEN Cardinality({p \in products : p.organization = org})
  ELSE Cardinality({u \in users : u.organization = org})

MeterUsers ==
  {Owner("orgA"), Owner("orgB"),
   [id |-> 0, organization |-> "orgA", role |-> "manager", is_staff |-> FALSE,
    is_authenticated |-> TRUE]}

\* The usage rows of an organization before the runs: none, those a metering
\* run wrote, or those the organization handler wrote.
MeterUsageRows(org, choice) ==
  CASE choice = "metered" ->
         {[organization |-> org, feature |-> f, period_start |-> current_month,
           period_end |-> next_month,
           count |-> IF f = "users" THEN Cardinality({u \in MeterUsers : u.organization = org})
                     ELSE Cardinality({p \in InitProducts : p.organization = org}),
           limit |-> PlanLimit] : f \in {"users", "products"}}
    [] choice = "signal" ->
         {[organization |-> org, feature |-> f, period_start |-> current_month,
           period_end |-> org_signal_period_end, count |-> 0,
           limit |-> IF f = "products" THEN 100 ELSE 1000] :
             f \in {"users", "products", "api_calls", "storage"}}
    [] OTHER -> {}

InitMeter ==
  /\ users = MeterUsers
  /\ products = InitProducts
  /\ images = {}
  /\ rows = {}
  /\ \E ca \in {"absent", "metered", "signal"}, cb \in {"absent", "metered", "signal"} :
       usage = MeterUsageRows("orgA", ca) \cup MeterUsageRows("orgB", cb)
  /\ logs = InitLogs
  /\ seq = [product |-> 2, log |-> 2]
  /\ mutations = 0
  /\ resp = NoResponse
  /\ perm \in {<<"orgA", "orgB">>, <<"orgB", "orgA">>}
  /\ pc = [r \in Runs |-> "count"]
  /\ local = [r \in Runs |-> [i |-> 1, feature |-> "users", count |-> 0,
                              updated |-> {}, failed |-> None]]
  /\ passwords = None

\* The count query of the loop body for the organization and feature the
\* run is at.
CountEntities(r) ==
  /\ pc[r] = "count"
  /\ local' = [local EXCEPT ![r].count = MeterCount(perm[local[r].i], local[r].feature)]
  /\ pc' = [pc EXCEPT ![r] = "upsert"]
  /\ UNCHANGED <<users, products, images, rows, usage, logs, seq, mutations, resp,
                 perm, passwords>>

\* The position of the run after the statement for one feature.
Advance(l) ==
  IF l.feature = "users" THEN [l EXCEPT !.feature = "products"]
  ELSE [l EXCEPT !.feature = "users", !.i = @ + 1]

\* Usage.objects.update_or_create(organization, feature, period_start,
\* period_end, defaults): the row matching the four lookups is updated, else
\* a row is inserted; the insert raises IntegrityError when a row of the
\* same (organization, feature, period_start) exists, and the exception
\* leaves the loop (the try statement encloses it).
UpdateOrCreate(r) ==
  /\ pc[r] = "upsert"
  /\ LET org == perm[local[r].i]
         f == local[r].feature
         same == {u \in usage : /\ u.organization = org
                                /\ u.feature = f
                                /\ u.period_start = current_month}
         found == {u \in same : u.period_end = next_month}
         row == [organization |-> org, feature |-> f, period_start |-> current_month,
                 period_end |-> next_month, count |-> local[r].count,
                 limit |-> PlanLimit]
         next == Advance([local[r] EXCEPT !.updated = @ \cup {<<org, f>>}])
     IN  IF found = {} /\ same # {}
         THEN /\ pc' = [pc EXCEPT ![r] = "halted"]
              /\ local' = [local EXCEPT ![r].failed = org]
              /\ UNCHANGED usage
         ELSE /\ usage' = (usage \ found) \cup {row}
              /\ local' = [local EXCEPT ![r] = next]
              /\ pc' = [pc EXCEPT ![r] = IF next.i > Len(perm) THEN "done" ELSE "count"]
  /\ UNCHANGED <<users, products, images, rows, logs, seq, mutations, resp, perm,
                 passwords>>

\* A product of the organization is created: Product.save with its
\* post_save receivers.
MeterCreateProduct(org) ==
  /\ mutations < MaxMeterChanges
  /\ \E db \in {Serializer_create(DB, NewProduct(DB, org, Owner(org)))} :
       /\ products' = db.products
       /\ usage' = db.usage
       /\ logs' = db.logs
       /\ seq' = db.seq
  /\ mutations' = mutations + 1
  /\ UNCHANGED <<users, images, rows, resp, perm, pc, local, passwords>>

\* A product is deleted: Product.delete with its post_delete receiver.
MeterDeleteProduct(product) ==
  /\ mutations < MaxMeterChanges
  /\ \E db \in {Product_delete(DB, product)} :
       /\ products' = db.products
       /\ logs' = db.logs
       /\ seq' = db.seq
  /\ mutations' = mutations + 1
  /\ UNCHANGED <<users, images, rows, usage, resp, perm, pc, local, passwords>>

NextMeter ==
  \/ \E r \in Runs : CountEntities(r)
  \/ \E r \in Runs : UpdateOrCreate(r)
  \/ \E org \in Orgs : MeterCreateProduct(org)
  \/ \E product \in products : MeterDeleteProduct(product)

SpecMeter == InitMeter /\ [][NextMeter]_vars

\* C15: no step makes the count of the usage row of an (organization,
\* feature, period) smaller than it was.
C15_UsageCountMonotone ==
  [][\A u \in usage : \A v \in usage' :
       (/\ v.organization = u.organization
        /\ v.feature = u.feature
        /\ v.period_start = u.period_start) => v.count >= u.count]_vars

MeterFinished == \A r \in Runs : pc[r] \in {"done", "halted"}

\* C17: after two runs of the metering task, overlapping or not, with no
\* change to users and products, there is exactly one usage row for every
\* organization, user/product feature and period, and its count is the
\* current number of users or products.
C17_MeteringRerunSafe ==
  (MeterFinished /\ mutations = 0) =>
    \A org \in Orgs : \A f \in {"users", "products"} :
      LET same == {u \in usage : /\ u.organization = org
                                 /\ u.feature = f
                                 /\ u.period_start = current_month}
      IN  /\ Cardinality(same) = 1
          /\ \A u \in same : u.count = MeterCount(org, f)

\* C18: when a run of the metering task has ended, every active
\* organization other than one whose processing raised an error has had its
\* users and products rows updated in that run.
C18_MeteringBatchIsolation ==
  \A r \in Runs :
    pc[r] \in {"done", "halted"} =>
      \A org \in Orgs \ {local[r].failed} : \A f \in {"users", "products"} :
        <<org, f>> \in local[r].updated

-----------------------------------------------------------------------------
(* views.py OrganizationViewSet.  SpecOrg serves the organizations         *)
(* collection to the users of the store; rows holds the Organization rows  *)
(* next to the rows of the other collections.                              *)

OrgId(org) == <<"organizations", org>>

OrganizationRow(org) == Obj("organizations", OrgId(org), org, NoUser)

Organizations == {r \in rows : r.kind = "organizations"}

InitOrg ==
  /\ users = InitUsers
  /\ products \in SUBSET InitProducts
  /\ images = {i \in {[id |-> 1, product |-> 1], [id |-> 2, product |-> 2]} :
                 \E p \in products : p.id = i.product}
  /\ rows = {Obj(k, <<k, o>>, o, Owner(o)) : k \in RowKinds, o \in Orgs}
              \cup {OrganizationRow(o) : o \in Orgs}
  /\ usage = InitUsage
  /\ logs = InitLogs
  /\ seq = [product |-> 2, log |-> 2]
  /\ mutations = 0
  /\ resp = NoResponse
  /\ InitOther

\* The queryset without the filter on the actor's organization.
OrganizationViewSet_get_queryset_unscoped(user) == Organizations

\* OrganizationViewSet.get_queryset
OrganizationViewSet_get_queryset(user) ==
  IF user.is_staff THEN Organizations
  ELSE IF user.organization # None
       THEN {r \in Organizations : r.organization = user.organization}
       ELSE {}

\* The rows that reference an organization: its users, products, usage
\* rows, log entries and the rows of the other collections.
HasDependents(org) ==
  \/ \E u \in users : u.organization = org
  \/ \E p \in products : p.organization = org
  \/ \E u \in usage : u.organization = org
  \/ \E l \in logs : l.organization = org
  \/ \E r \in rows : r.kind # "organizations" /\ r.organization = org

\* permission_classes = [IsAuthenticated], then get_object on get_queryset.
OrganizationViewSet_status(user, pk) ==
  IF ~IsAuthenticated(user) THEN 401
  ELSE IF \E r \in OrganizationViewSet_get_queryset(user) : r.id = pk THEN 0
  ELSE 404

OrganizationList ==
  /\ Idle
  /\ \E user \in users \cup {AnonymousUser} :
       resp' = IF IsAuthenticated(user)
               THEN Response("org_list", user, "organizations", None, 200,
                             OrganizationViewSet_get_queryset(user), None, None)
               ELSE Response("org_list", user, "organizations", None, 401, {}, None, None)
  /\ UNCHANGED <<users, products, images, rows, usage, logs, seq, mutations,
                 perm, pc, local, passwords>>

OrganizationRetrieve ==
  /\ Idle
  /\ \E user \in users \cup {AnonymousUser}, org \in Orgs \cup {"missing"} :
       LET st == OrganizationViewSet_status(user, OrgId(org))
       IN  resp' = Response("org_retrieve", user, "organizations", OrgId(org),
                            IF st = 0 THEN 200 ELSE st,
                            IF st = 0 THEN {OrganizationRow(org)} ELSE {}, None, None)
  /\ UNCHANGED <<users, products, images, rows, usage, logs, seq, mutations,
                 perm, pc, local, passwords>>

\* DestroyModelMixin.destroy on the organization: Organization.delete
\* cascades to every row referencing it.  The post_delete receiver of a
\* deleted product inserts a log entry for the organization under deletion,
\* which fails the foreign key check, so that the deletion of an
\* organization with products is rolled back and answered 500.
OrganizationDestroy ==
  /\ Idle
  /\ \E user \in users \cup {AnonymousUser}, org \in Orgs \cup {"missing"} :
       LET st == OrganizationViewSet_status(user, OrgId(org))
           rollback == \E p \in products : p.organization = org
           deleted == st = 0 /\ ~rollback
       IN  /\ resp' = Response("org_destroy", user, "organizations", OrgId(org),
                               IF st # 0 THEN st ELSE IF rollback THEN 500 ELSE 204,
                               {}, None, HasDependents(org))
           /\ users' = IF deleted THEN {u \in users : u.organization # org} ELSE users
           /\ rows' = IF deleted THEN {r \in rows : r.organization # org} ELSE rows
           /\ usage' = IF deleted THEN {u \in usage : u.organization # org} ELSE usage
           /\ logs' = IF deleted THEN {l \in logs : l.organization # org} ELSE logs
           /\ mutations' = IF deleted THEN mutations + 1 ELSE mutations
  /\ UNCHANGED <<products, images, seq, perm, pc, local, passwords>>

\* The receiver without its test of created.
create_organization_subscription_on_every_save(db, instance, created) ==
  LET subscribed ==
        IF \E r \in db.rows : r.kind = "subscriptions" /\ r.organization = instance
        THEN db
        ELSE [db EXCEPT !.rows = @ \cup
                {[kind |-> "subscriptions", id |-> <<"subscriptions", instance>>,
                  organization |-> instance, user |-> NoUser, plan |-> "basic",
                  status |-> "active", cancel_at_period_end |-> FALSE,
                  current_period_end |-> "now_plus_30_days"]}]
      get_or_create(d, feature) ==
        LET same == {u \in d.usage : /\ u.organization = instance
                                     /\ u.feature = feature
                                     /\ u.period_start = current_month}
        IN  IF d.error \/ \E u \in same : u.period_end = org_signal_period_end
            THEN d
            ELSE IF same # {}
                 THEN [d EXCEPT !.error = TRUE]
                 ELSE [d EXCEPT !.usage = @ \cup
                         {[organization |-> instance, feature |-> feature,
                           period_start |-> current_month,
                           period_end |-> org_signal_period_end, count |-> 0,
                           limit |-> IF feature = "products" THEN 100 ELSE 1000]}]
  IN  get_or_create(get_or_create(get_or_create(get_or_create(
        subscribed, "users"), "products"), "api_calls"), "storage")

\* signals.py create_organization_subscription (post_save of Organization):
\* Subscription.objects.get_or_create(organization) and, for each feature in
\* turn, Usage.objects.get_or_create with the lookups organization, feature,
\* period_start and period_end.  A row matching the lookups is kept; else a
\* row is inserted, which raises IntegrityError when the organization has a
\* subscription, or a usage row of the same (organization, feature,
\* period_start), already; the exception ends the handler.
create_organization_subscription(db, instance, created) ==
  LET subscribed ==
        IF \E r \in db.rows : r.kind = "subscriptions" /\ r.organization = instance
        THEN db
        ELSE [db EXCEPT !.rows = @ \cup
                {[kind |-> "subscriptions", id |-> <<"subscriptions", instance>>,
                  organization |-> instance, user |-> NoUser, plan |-> "basic",
                  status |-> "active", cancel_at_period_end |-> FALSE,
                  current_period_end |-> "now_plus_30_days"]}]
      get_or_create(d, feature) ==
        LET same == {u \in d.usage : /\ u.organization = instance
                                     /\ u.feature = feature
                                     /\ u.period_start = current_month}
        IN  IF d.error \/ \E u \in same : u.period_end = org_signal_period_end
            THEN d
            ELSE IF same # {}
                 THEN [d EXCEPT !.error = TRUE]
                 ELSE [d EXCEPT !.usage = @ \cup
                         {[organization |-> instance, feature |-> feature,
                           period_start |-> current_month,
                           period_end |-> org_signal_period_end, count |-> 0,
                           limit |-> IF feature = "products" THEN 100 ELSE 1000]}]
  IN  IF created
      THEN get_or_create(get_or_create(get_or_create(get_or_create(
             subscribed, "users"), "products"), "api_calls"), "storage")
      ELSE db

\* CreateModelMixin.create on the organizations collection (permission
\* IsAuthenticated): Organization.save of a new row, then its post_save
\* receiver.  pre records whether the organization existed before.
OrganizationCreate ==
  /\ Idle
  /\ \E user \in users \cup {AnonymousUser}, org \in Orgs :
       /\ OrganizationRow(org) \notin rows
       /\ IF ~IsAuthenticated(user)
          THEN /\ resp' = Response("org_create", user, "organizations", OrgId(org), 401,
                                   {}, None, FALSE)
               /\ UNCHANGED <<rows, usage>>
          ELSE \E db \in {create_organization_subscription(
                            [DB EXCEPT !.rows = @ \cup {OrganizationRow(org)}], org, TRUE)} :
                 /\ resp' = Response("org_create", user, "organizations", OrgId(org),
                                     IF db.error THEN 500 ELSE 201,
                                     {OrganizationRow(org)}, None, FALSE)
                 /\ rows' = db.rows
                 /\ usage' = db.usage
  /\ UNCHANGED <<users, products, images, logs, seq, mutations, perm, pc, local,
                 passwords>>

\* UpdateModelMixin.update and partial_update on the organizations
\* collection: get_object, then Organization.save of the existing row with
\* its post_save receiver.
OrganizationUpdate ==
  /\ Idle
  /\ \E user \in users \cup {AnonymousUser}, org \in Orgs \cup {"missing"} :
       \E db \in {create_organization_subscription(DB, org, FALSE)} :
         LET st == OrganizationViewSet_status(user, OrgId(org))
         IN  /\ resp' = Response("org_update", user, "organizations", OrgId(org),
                                 IF st = 0 THEN 200 ELSE st,
                                 IF st = 0 THEN {OrganizationRow(org)} ELSE {}, None, TRUE)
             /\ rows' = IF st = 0 THEN db.rows ELSE rows
             /\ usage' = IF st = 0 THEN db.usage ELSE usage
  /\ UNCHANGED <<users, products, images, logs, seq, mutations, perm, pc, local,
                 passwords>>

NextOrg ==
  \/ OrganizationList
  \/ OrganizationRetrieve
  \/ OrganizationUpdate
  \/ OrganizationDestroy
  \/ Respond

SpecOrg == InitOrg /\ [][NextOrg]_vars

\* C16: no request of a non-staff user removes an Organization row that has
\* dependent rows: after a DELETE by a non-staff user on an organization
\* that had dependents, the Organization row is still there.
C16_OrganizationNotHardDeleted ==
  (/\ resp.op = "org_destroy"
   /\ ~resp.user.is_staff
   /\ resp.pre = TRUE) => \E r \in Organizations : r.id = resp.pk

-----------------------------------------------------------------------------
(* middleware.py APIAnalyticsMiddleware on the routed paths.               *)
(* SpecMiddleware passes one response of a request of any method, path and *)
(* user through process_response.  A path is the sequence of its segments. *)

Methods == {"GET", "POST", "PUT", "PATCH", "DELETE"}

\* Paths of Role_Based_auth/urls.py and Role_Based_auth_app/urls.py.
Paths ==
  {<<"api", "v1", "products">>, <<"api", "v1", "categories">>,
   <<"api", "auth", "token">>, <<"api", "auth", "token", "refresh">>,
   <<"api", "v1", "api", "token">>, <<"api", "v1", "api", "token", "refresh">>,
   <<"api", "me", "change-password">>, <<"admin", "login">>}

\* SENSITIVE_PATHS.search(request.path): the path contains "/api/auth/" or
\* "/admin/".
SENSITIVE_PATHS(path) ==
  \/ \E i \in 1 .. Len(path) - 1 : path[i] = "api" /\ path[i + 1] = "auth"
  \/ \E i \in 1 .. Len(path) : path[i] = "admin"

\* APIAnalyticsMiddleware.process_response for a request of the given path.
process_response_path(db, user, method, path) ==
  IF SENSITIVE_PATHS(path) THEN db ELSE process_response(db, user, method)

MiddlewareUsers ==
  {AnonymousUser, Owner("orgA"),
   [id |-> 0, organization |-> None, role |-> "user", is_staff |-> TRUE,
    is_authenticated |-> TRUE]}

InitMiddleware ==
  /\ InitNoStore
  /\ local \in [method : Methods, path : Paths, user : MiddlewareUsers,
                responded : {FALSE}]
  /\ perm = None
  /\ pc = None
  /\ passwords = None

ProcessResponse ==
  /\ ~local.responded
  /\ \E db \in {process_response_path(DB, local.user, local.method, local.path)} :
       /\ logs' = db.logs
       /\ seq' = db.seq
  /\ local' = [local EXCEPT !.responded = TRUE]
  /\ UNCHANGED <<users, products, images, rows, usage, mutations, resp, perm, pc,
                 passwords>>

NextMiddleware == ProcessResponse

SpecMiddleware == InitMiddleware /\ [][NextMiddleware]_vars

\* The token endpoints.
TokenEndpoint(path) == \E i \in 1 .. Len(path) : path[i] = "token"

\* C19: the response of a request of an authenticated user to a path of
\* the API leaves exactly one log entry of the method's action when the
\* method is POST, PUT, PATCH or DELETE and the path is not a token
\* endpoint, and none otherwise.
C19_MiddlewareLogsMutatingRequests ==
  (local.responded /\ local.user.is_authenticated /\ local.path[1] = "api") =>
    LET entries == {l \in logs : /\ l.resource_type = "API"
                                 /\ l.user = local.user
                                 /\ l.action = method_to_action(local.method)}
    IN  IF local.method \in {"POST", "PUT", "PATCH", "DELETE"} /\ ~TokenEndpoint(local.path)
        THEN Cardinality(entries) = 1
        ELSE entries = {}

-----------------------------------------------------------------------------
(* A further claim about the product endpoints, checked under Spec.        *)

\* C20: a manager, user or viewer who is not staff never deletes a product
\* of the own organization: after such a DELETE, on ProductViewSet or on
\* AdminProductView, the product is still stored.
C20_ProductDeleteGated ==
  (/\ resp.kind = "products"
   /\ resp.op \in {"destroy", "admin_delete"}
   /\ ~resp.user.is_staff
   /\ resp.user.role \in {"manager", "user", "viewer"}
   /\ resp.user.organization \in Orgs
   /\ resp.pre = resp.user.organization) => \E p \in products : p.id = resp.pk

-----------------------------------------------------------------------------
(* Creation of organizations and of their entities.  SpecSignup starts in  *)
(* a month in which orgA, created in an earlier month, has no usage row    *)
(* yet and orgB does not exist; the members of orgA and the users without  *)
(* an organization create organizations, products, users and images.       *)

InitSignup ==
  /\ users = Actors \ {AnonymousUser}
  /\ products = {}
  /\ images = {}
  /\ rows = {OrganizationRow("orgA"),
             [kind |-> "subscriptions", id |-> <<"subscriptions", "orgA">>,
              organization |-> "orgA", user |-> NoUser, plan |-> "basic",
              status |-> "active", cancel_at_period_end |-> FALSE,
              current_period_end |-> "now_plus_30_days"]}
  /\ usage = {}
  /\ logs = {}
  /\ seq = [product |-> 0, log |-> 0, user |-> 0]
  /\ mutations = 0
  /\ resp = NoResponse
  /\ InitOther

\* The number of users the create endpoint may add.
MaxUsers == 1

\* signals.py update_user_count (post_save of User)
update_user_count(db, instance, created) ==
  IF created /\ instance.organization # None
  THEN usage_get_or_create_increment(db, instance.organization, "users",
                                     UserUsageDefaultLimit)
  ELSE db

\* The post_save receivers of User in registration order, run by User.save
\* after the row is written; a receiver that raises stops the later ones.
User_save(db, instance, created) ==
  LET logged == create_user_profile_activity(db, instance, created)
  IN  IF logged.error THEN logged ELSE update_user_count(logged, instance, created)

\* AdminOnlyUserCreateView (POST users/create/): CreateModelMixin.create with
\* the view's perform_create, which saves only when the actor has an
\* organization; the answer is 201 either way.  pk is the stored user,
\* NoUser when none was stored.
AdminOnlyUserCreate ==
  /\ Idle
  /\ seq.user < MaxUsers
  /\ \E user \in Actors :
       LET allowed == check_permissions(<<"IsAuthenticated", "CanCreateUsers">>, user, "POST")
           instance == [id |-> seq.user + 1, organization |-> user.organization,
                        role |-> "user", is_staff |-> FALSE, is_authenticated |-> TRUE]
           saves == allowed /\ user.organization # None
       IN  \E db \in {IF saves
                      THEN User_save([DB EXCEPT !.seq.user = @ + 1], instance, TRUE)
                      ELSE DB} :
             /\ resp' = Response("user_create", user, "users",
                                 IF saves THEN instance ELSE NoUser,
                                 IF ~allowed THEN IF user.is_authenticated THEN 403 ELSE 401
                                 ELSE IF db.error THEN 500 ELSE 201,
                                 {}, None, None)
             /\ users' = IF saves THEN users \cup {instance} ELSE users
             /\ usage' = db.usage
             /\ logs' = db.logs
             /\ seq' = db.seq
  /\ UNCHANGED <<products, images, rows, mutations, perm, pc, local, passwords>>

\* CreateModelMixin.create of ProductImageViewSet for an image of an
\* existing product, with BaseOrgViewSet.perform_create: serializer.save
\* is called when the actor has an organization and the model has an
\* organization attribute, and when the model has a created_by attribute.
\* pk is the id of the stored image, 0 when none was stored.
ProductImageCreate ==
  /\ Idle
  /\ \E user \in Actors, product \in products :
       LET st == Initial("product-images", user, "POST")
           saves == \/ user.organization # None /\ HasOrganizationAttr("product-images")
                    \/ HasCreatedByAttr("product-images")
           instance == [id |-> Cardinality(images) + 1, product |-> product.id]
       IN  /\ resp' = Response("image_create", user, "product-images",
                               IF st = 0 /\ saves THEN instance.id ELSE 0,
                               IF st = 0 THEN 201 ELSE st, {}, None, None)
           /\ images' = IF st = 0 /\ saves THEN images \cup {instance} ELSE images
  /\ UNCHANGED <<users, products, rows, usage, logs, seq, mutations, perm, pc, local,
                 passwords>>

\* A product create request names an organization that exists (the
\* serializer refuses the key of a missing row) or none.
NextSignup ==
  \/ OrganizationCreate
  \/ OrganizationUpdate
  \/ ProductCreate /\ (resp'.body = None \/ OrganizationRow(resp'.body) \in rows)
  \/ AdminOnlyUserCreate
  \/ ProductImageCreate
  \/ Respond

SpecSignup == InitSignup /\ [][NextSignup]_vars

\* C21: every usage row of the current month, whichever handler or task
\* wrote it, starts at the first instant of the month and ends at the first
\* instant of the following month.
C21_UsagePeriodsMonthAligned ==
  \A u \in usage : u.period_start = current_month /\ u.period_end = next_month

\* The creation events of orgA of one resource type, each recorded by the
\* post_save receiver of the model.
Creations(resource_type) ==
  {l \in logs : /\ l.organization = "orgA"
                /\ l.action = "create"
                /\ l.resource_type = resource_type}

\* C22: orgA starts the month without usage rows; after k >= 1 creations of
\* products (users) of orgA, the products (users) usage row of the month
\* exists and its count is k.
C22_UsageCountsCreations ==
  /\ Creations("Product") # {} =>
       \E u \in usage : /\ u.organization = "orgA"
                        /\ u.feature = "products"
                        /\ u.period_start = current_month
                        /\ u.count = Cardinality(Creations("Product"))
  /\ Creations("User") # {} =>
       \E u \in usage : /\ u.organization = "orgA"
                        /\ u.feature = "users"
                        /\ u.period_start = current_month
                        /\ u.count = Cardinality(Creations("User"))

\* C23: once orgB has been created, and with it its usage rows of the
\* month, the creation of a product of orgB in that month is not answered
\* with a server error: the receiver's get_or_create finds the row.
C23_CreateAfterSignupSucceeds ==
  (/\ resp.op = "create"
   /\ resp.user.organization = None
   /\ resp.body = "orgB"
   /\ OrganizationRow("orgB") \in rows) => resp.status # 500

\* C24: a create request on the products or product-images collection or
\* on users/create/ that is answered 201 has stored the entity it created.
C24_CreatePersistsEntity ==
  resp.status = 201 =>
    CASE resp.op = "create" -> \E p \in products : p.id = resp.pk
      [] resp.op = "image_create" -> \E i \in images : i.id = resp.pk
      [] resp.op = "user_create" -> resp.pk \in users
      [] OTHER -> TRUE

\* C25: a product created by one request to ProductViewSet has exactly one
\* log entry written by the receivers, its action is create, and no update
\* entry names the product.
C25_OneAuditEntryPerCreate ==
  (resp.op = "create" /\ resp.status = 201) =>
    LET entries == {l \in logs : l.resource_type = "Product" /\ l.resource_id = resp.pk}
    IN  /\ Cardinality(entries) = 1
        /\ \A l \in entries : l.action = "create"

-----------------------------------------------------------------------------
(* models.py ProductImage.save under concurrent calls.  SpecImages runs    *)
(* NumSavers calls of save on images of product 1, each a new image or a   *)
(* stored one with a new value of is_primary; a step is one statement on   *)
(* the image table.  local holds the instance of each call, pc its place.  *)

NumSavers == 2

InitImages ==
  /\ users = {}
  /\ products = {p \in InitProducts : p.id = 1}
  /\ \E primary \in {0, 1, 2} :
       images = {[id |-> id, product |-> 1, is_primary |-> id = primary] : id \in {1, 2}}
  /\ rows = {}
  /\ usage = {}
  /\ logs = {}
  /\ seq = [product |-> 1, log |-> 0]
  /\ mutations = 0
  /\ resp = NoResponse
  /\ perm = None
  /\ pc = [i \in 1 .. NumSavers |-> "update"]
  /\ local \in [1 .. NumSavers -> [id : {1, 2, 3}, product : {1}, is_primary : BOOLEAN]]
  /\ passwords = None

\* ProductImage.save of the instance local[i]: when it is primary, the
\* update that clears is_primary on the primary images of its product, then
\* Model.save, which writes the instance.
ProductImage_save(i) ==
  /\ \/ /\ pc[i] = "update"
        /\ images' = IF local[i].is_primary
                     THEN {IF img.product = local[i].product /\ img.is_primary
                           THEN [img EXCEPT !.is_primary = FALSE] ELSE img : img \in images}
                     ELSE images
        /\ pc' = [pc EXCEPT ![i] = "save"]
     \/ /\ pc[i] = "save"
        /\ images' = {img \in images : img.id # local[i].id} \cup {local[i]}
        /\ pc' = [pc EXCEPT ![i] = "done"]
  /\ UNCHANGED <<users, products, rows, usage, logs, seq, mutations, resp, perm, local,
                 passwords>>

NextImages == \E i \in 1 .. NumSavers : ProductImage_save(i)

SpecImages == InitImages /\ [][NextImages]_vars

\* C26: whatever calls of ProductImage.save have run, one after the other
\* or overlapping, a product has at most one image with is_primary true.
C26_AtMostOnePrimaryImage ==
  \A p \in products :
    Cardinality({img \in images : img.product = p.id /\ img.is_primary}) <= 1

-----------------------------------------------------------------------------
(* tasks.py update_subscription_status and views.py NotificationViewSet.   *)
(* SpecSub runs the periodic task up to MaxStatusRuns times, one run after *)
(* the other, while users list, retrieve and mark their notifications.     *)
(* rows holds the Subscription and Notification rows; current_period_end   *)
(* is past or future with respect to the runs; pc counts the runs.         *)

MaxStatusRuns == 2

InitSub ==
  /\ users = (Actors \ {AnonymousUser}) \cup {SecondOwner, Owner("orgB")}
  /\ products = {}
  /\ images = {}
  /\ \E status \in {"active", "cancelled"}, cancel \in [Orgs -> BOOLEAN],
        end \in {"past", "future"} :
       rows = {[kind |-> "subscriptions", id |-> <<"subscriptions", org>>,
                organization |-> org, user |-> NoUser, plan |-> "basic",
                status |-> IF org = "orgA" THEN status ELSE "active",
                cancel_at_period_end |-> cancel[org],
                current_period_end |-> IF org = "orgA" THEN end ELSE "past"] :
                  org \in Orgs}
              \cup
              {[kind |-> "notifications",
                id |-> <<"notifications", o.organization \o "-" \o ToString(o.id) \o "-0">>,
                organization |-> o.organization, user |-> o, title |-> "Welcome",
                notification_type |-> "info", is_read |-> FALSE, read_at |-> None] :
                  o \in {Owner("orgA"), SecondOwner, Owner("orgB")}}
  /\ usage = {}
  /\ logs = {}
  /\ seq = [product |-> 0, log |-> 0]
  /\ mutations = 0
  /\ resp = NoResponse
  /\ perm = None
  /\ pc = 0
  /\ local = None
  /\ passwords = None

\* The task without the status filter of its query.
update_subscription_status_unfiltered ==
  /\ pc < MaxStatusRuns
  /\ pc' = pc + 1
  /\ LET expired_subscriptions ==
           {s \in rows : s.kind = "subscriptions" /\ s.current_period_end = "past"}
         cancelled == {s \in expired_subscriptions : s.cancel_at_period_end}
         owners(s) == {o \in users : o.organization = s.organization /\ o.role = "owner"}
     IN  rows' = (rows \ cancelled)
                   \cup {[s EXCEPT !.status = "cancelled"] : s \in cancelled}
                   \cup UNION {
                     {[kind |-> "notifications",
                       id |-> <<"notifications",
                                s.organization \o "-" \o ToString(o.id) \o "-"
                                  \o ToString(pc + 1)>>,
                       organization |-> s.organization, user |-> o,
                       title |-> "Subscription Cancelled",
                       notification_type |-> "error", is_read |-> FALSE,
                       read_at |-> None] : o \in owners(s)} : s \in cancelled}
  /\ UNCHANGED <<users, products, images, usage, logs, seq, mutations, resp, perm,
                 local, passwords>>

\* update_subscription_status, one run: every active subscription whose
\* period has ended and which is to be cancelled at the period end is set
\* to cancelled, and a notification is created for each owner of its
\* organization; the other subscriptions are left as they are.
update_subscription_status ==
  /\ pc < MaxStatusRuns
  /\ pc' = pc + 1
  /\ LET expired_subscriptions ==
           {s \in rows : /\ s.kind = "subscriptions"
                         /\ s.current_period_end = "past"
                         /\ s.status = "active"}
         cancelled == {s \in expired_subscriptions : s.cancel_at_period_end}
         owners(s) == {o \in users : o.organization = s.organization /\ o.role = "owner"}
     IN  rows' = (rows \ cancelled)
                   \cup {[s EXCEPT !.status = "cancelled"] : s \in cancelled}
                   \cup UNION {
                     {[kind |-> "notifications",
                       id |-> <<"notifications",
                                s.organization \o "-" \o ToString(o.id) \o "-"
                                  \o ToString(pc + 1)>>,
                       organization |-> s.organization, user |-> o,
                       title |-> "Subscription Cancelled",
                       notification_type |-> "error", is_read |-> FALSE,
                       read_at |-> None] : o \in owners(s)} : s \in cancelled}
  /\ UNCHANGED <<users, products, images, usage, logs, seq, mutations, resp, perm,
                 local, passwords>>

\* NotificationViewSet.mark_read: get_object on the view's queryset, then
\* Notification.mark_as_read, which writes is_read and read_at when the
\* notification is unread.
mark_read(db, user, pk) ==
  LET st == DetailStatus("notifications", user, "POST", pk)
  IN  IF st # 0
      THEN Result(Response("mark_read", user, "notifications", pk, st, {}, None,
                           TargetOrg("notifications", pk)),
                  process_response(db, user, "POST"))
      ELSE Result(Response("mark_read", user, "notifications", pk, 200,
                           {o \in get_queryset("notifications", user) : o.id = pk},
                           None, TargetOrg("notifications", pk)),
                  process_response(
                    [db EXCEPT !.rows =
                       {IF r.kind = "notifications" /\ r.id = pk /\ ~r.is_read
                        THEN [r EXCEPT !.is_read = TRUE, !.read_at = "now"]
                        ELSE r : r \in @}],
                    user, "POST"))

MarkRead ==
  Idle /\ \E user \in Actors : \E pk \in PkInputs("notifications") :
    Handle(mark_read(DB, user, pk))

NextSub ==
  \/ update_subscription_status
  \/ MarkRead
  \/ List /\ resp'.kind = "notifications"
  \/ Retrieve /\ resp'.kind = "notifications"
  \/ Respond

SpecSub == InitSub /\ [][NextSub]_vars

\* The cancellation notifications a user holds about an organization.
Cancellations(o, org) ==
  {n \in rows : /\ n.kind = "notifications"
                /\ n.title = "Subscription Cancelled"
                /\ n.user = o
                /\ n.organization = org}

\* C27: a run of update_subscription_status sets every active subscription
\* whose period has ended and which has cancel_at_period_end to cancelled
\* and gives each owner of its organization one cancellation notification;
\* it leaves every other subscription unchanged and creates no other
\* notification; and however many runs follow, a user never holds more than
\* one cancellation notification about an organization.
C27_CancelExpiredNotifyOnce ==
  /\ [][pc' # pc =>
          \A s \in rows : s.kind = "subscriptions" =>
            LET due == /\ s.status = "active"
                       /\ s.current_period_end = "past"
                       /\ s.cancel_at_period_end
            IN  /\ (IF due THEN [s EXCEPT !.status = "cancelled"] ELSE s) \in rows'
                /\ Cardinality({t \in rows' : t.kind = "subscriptions"
                                               /\ t.id = s.id}) = 1
                /\ \A o \in users :
                     Cardinality(Cancellations(o, s.organization)') =
                       Cardinality(Cancellations(o, s.organization))
                         + (IF due /\ o.organization = s.organization /\ o.role = "owner"
                            THEN 1 ELSE 0)]_vars
  /\ [](\A o \in users : \A org \in Orgs : Cardinality(Cancellations(o, org)) <= 1)

\* A later run has happened after a subscription was cancelled and its
\* owner notified.
C27_RunAfterCancellation ==
  /\ pc = MaxStatusRuns
  /\ \E s \in rows : /\ s.kind = "subscriptions"
                     /\ s.organization = "orgA"
                     /\ s.status = "cancelled"
                     /\ s.cancel_at_period_end
  /\ Cancellations(SecondOwner, "orgA") # {}
  /\ \E s \in rows : /\ s.kind = "subscriptions"
                     /\ s.status = "active"
                     /\ s.current_period_end = "past"
                     /\ ~s.cancel_at_period_end

\* C28: when a request has created an organization, the organization has
\* exactly one subscription, with plan basic and status active, and for
\* each feature exactly one usage row, with count 0 and limit 100 for
\* products and 1000 otherwise; and a request that saves an existing
\* organization again adds no subscription and no usage row.
C28_OrganizationCreationRecords ==
  /\ [](resp.op = "org_create" /\ resp.status # 401 =>
          LET org == resp.pk[2]
              subscriptions == {r \in rows : /\ r.kind = "subscriptions"
                                             /\ r.organization = org}
          IN  /\ resp.status = 201
              /\ Cardinality(subscriptions) = 1
              /\ \A r \in subscriptions : r.plan = "basic" /\ r.status = "active"
              /\ \A f \in {"users", "products", "api_calls", "storage"} :
                   LET records == {u \in usage : u.organization = org /\ u.feature = f}
                   IN  /\ Cardinality(records) = 1
                       /\ \A u \in records :
                            /\ u.count = 0
                            /\ u.limit = IF f = "products" THEN 100 ELSE 1000)
  /\ [][resp'.op = "org_update" => rows' = rows /\ usage' = usage]_vars

\* An organization created by a request has been saved again.
C28_CreatedOrganizationSavedAgain ==
  /\ resp.op = "org_update"
  /\ resp.status = 200
  /\ resp.pk = OrgId("orgB")
  /\ \E u \in usage : u.organization = "orgB"

\* C29: list, retrieve and mark_read on the notifications collection return
\* only notifications addressed to the actor, and a notification changes
\* only by a mark_read request of its recipient.
C29_NotificationsOnlyForRecipient ==
  /\ [](resp.kind = "notifications" /\ resp.op \in {"list", "retrieve", "mark_read"} =>
          \A o \in resp.data : o.user = resp.user)
  /\ [][\A n \in rows :
          n.kind = "notifications" =>
            \/ n \in rows'
            \/ resp'.op = "mark_read" /\ resp'.user = n.user]_vars

\* An actor has asked to mark a notification of another user of the
\* actor's organization, and has been refused.
C29_MarkReadOfColleagueRefused ==
  /\ resp.op = "mark_read"
  /\ resp.status = 404
  /\ resp.user.organization = "orgA"
  /\ \E n \in rows : /\ n.kind = "notifications"
                     /\ n.id = resp.pk
                     /\ n.user = SecondOwner
                     /\ ~n.is_read
  /\ \E n \in rows : n.kind = "notifications" /\ n.is_read

-----------------------------------------------------------------------------
(* The scope of the organizations collection, checked under SpecOrg.       *)

\* C30: to a non-staff actor the organizations collection lists exactly the
\* actor's own organization, nothing when the actor has none; a retrieve,
\* update or delete request of a non-staff actor that names another
\* organization is refused and changes nothing.
C30_OrganizationsOnlyOwn ==
  /\ [](resp.op = "org_list" /\ resp.status = 200 /\ ~resp.user.is_staff =>
          resp.data = {r \in Organizations : r.organization = resp.user.organization})
  /\ []((/\ resp.op \in {"org_retrieve", "org_update", "org_destroy"}
         /\ ~resp.user.is_staff
         /\ resp.pk # OrgId(resp.user.organization)) => resp.status \in {401, 404})
  /\ [][(/\ resp'.op \in {"org_retrieve", "org_update", "org_destroy"}
         /\ ~resp'.user.is_staff
         /\ resp'.pk # OrgId(resp'.user.organization)) =>
          UNCHANGED <<users, products, images, rows, usage, logs>>]_vars

\* A member of orgA has asked to update orgB, which exists, and has been
\* refused.
C30_UpdateOfOtherOrganizationRefused ==
  /\ resp.op = "org_update"
  /\ resp.status = 404
  /\ ~resp.user.is_staff
  /\ resp.user.organization = "orgA"
  /\ resp.pk = OrgId("orgB")
  /\ OrganizationRow("orgB") \in rows

====
